---- MODULE Spec2Model ----
(***************************************************************************)
(* The two scripts of the repository as one state machine.                 *)
(*   ads.py          read_plc_tag + the command-line entry point           *)
(*   find_net_id.py  the endpoint discovery script (module body)           *)
(* The pyads library is the environment: each library call either          *)
(* succeeds or raises, chosen nondeterministically.                        *)
(***************************************************************************)
EXTENDS Integers, Sequences, FiniteSets, TLC

VARIABLES
    script,         \* which script the process runs: "ads" or "find"
    pc,             \* position in the running script
    argv,           \* sys.argv[1:], the arguments after the script name
    device,         \* the REAL the device holds for its symbol, in tenths
    tag_name,       \* read_plc_tag's parameter (tag_to_read at the call)
    plc,            \* the pyads.Connection object, or Unbound
    connOpen,       \* is the connection object open
    calls,          \* the method calls issued on the connection, in order
    value,          \* read_plc_tag's local `value`
    exc,            \* the exception being handled, or NoExc
    tag_value,      \* what read_plc_tag returned to the caller
    stdout,         \* lines written to standard output
    stderr,         \* lines written to standard error
    exitStatus,     \* <<>> while the process runs, then <<its exit status>>
    runs,           \* invocations the calling process has started
    observed,       \* what the calling process saw of earlier read_plc_tag calls
    port,           \* find_net_id: the router port, or Unbound
    local_address,  \* find_net_id: the AmsAddr object, or Unbound
    closeCalls      \* find_net_id: the ports adsPortCloseEx was called on

vars == <<script, pc, argv, device, tag_name, plc, connOpen, calls, value, exc,
          tag_value, stdout, stderr, exitStatus, runs, observed, port,
          local_address, closeCalls>>

adsVars == <<tag_name, plc, connOpen, calls, value, tag_value, stderr, observed>>
findVars == <<port, local_address, closeCalls>>

----------------------------------------------------------------------------
(* Bounds of the model *)

MaxArgs == 2        \* longest argument list the caller passes
MaxRuns == 2        \* invocations the calling process makes in one behaviour

----------------------------------------------------------------------------
(* Values *)

\* Python objects carry their type, so that None, an unassigned name and a
\* number can be told apart.
Unbound == [type |-> "unbound"]         \* a name that has not been assigned
None == [type |-> "NoneType"]
Float(v) == [type |-> "float", real |-> v]
PyInt(n) == [type |-> "int", int |-> n]
NoExc == "<no exception>"
NoTag == "<no tag>"

PLC_AMS_NET_ID == "172.18.236.210.1.1"
PLC_PORT == 851

OtherNetId == "10.0.0.5.1.1"
NetIds == {PLC_AMS_NET_ID, OtherNetId}

\* Words a caller may put on the command line: endpoints and tag names.
Words == {PLC_AMS_NET_ID, OtherNetId, "Temperature", "Nonexistent"}

\* The symbols the PLC program exposes.
Symbols == {"Temperature"}

\* REAL values in tenths: 235 is 23.5, 0 is 0.0, -5 is -0.5.
Reals == {0, 235, -5}

\* Router ports adsPortOpenEx hands out.
Ports == {32768, 32769}

RECURSIVE SeqsUpTo(_, _)
SeqsUpTo(S, n) ==
    IF n = 0 THEN {<<>>}
    ELSE LET shorter == SeqsUpTo(S, n - 1)
         IN  shorter \cup {Append(s, w) : s \in {t \in shorter : Len(t) = n - 1}, w \in S}

Abs(n) == IF n < 0 THEN -n ELSE n

----------------------------------------------------------------------------
(* ads.py *)

\* str(x), as print(x) writes it. A float: sign, integer part, '.', fraction.
Str(x) ==
    IF x.type = "float"
    THEN [neg |-> x.real < 0, int |-> Abs(x.real) \div 10, frac |-> Abs(x.real) % 10]
    ELSE [text |-> "None"]

\* f"Python Error: {e}"
ErrorLine(e) == [prefix |-> "Python Error: ", msg |-> e]

NoTagLine == [prefix |-> "Python Error: ", msg |-> "No tag name provided."]

\* `if len(sys.argv) > 1`: sys.argv holds the script name and then argv.
HasTagArgument(args) == Len(args) + 1 > 1

\* `tag_to_read = sys.argv[1]`
TagArgument(args) == args[1]

\* `if tag_value is not None`
IsTruthy(x) == x.type = "float" /\ x.real # 0
PrintsAnything(x) == TRUE
IsNotNone(x) == x.type # "NoneType"

\* `except Exception`: every exception the library raises derives from Exception.
CatchesAllButSymbol(e) == e # "SymbolNotFound"
Catches(e) == TRUE

\* `return None` in the handler.
HandlerStaleResult(x) == IF x = Unbound THEN Float(0) ELSE x
HandlerResult(x) == None

\* plc = pyads.Connection(PLC_AMS_NET_ID, PLC_PORT)
ConnectionFromArgs(args) == [type |-> "Connection", netid |-> args[1], port |-> PLC_PORT]
Connection(args) == [type |-> "Connection", netid |-> PLC_AMS_NET_ID, port |-> PLC_PORT]

Raise(e, next) == /\ exc' = e
                  /\ pc' = next

\* if len(sys.argv) > 1: tag_to_read = sys.argv[1]; read_plc_tag(tag_to_read)
MainCheckArgs ==
    /\ script = "ads" /\ pc = "main"
    /\ IF HasTagArgument(argv)
       THEN /\ tag_name' = TagArgument(argv)
            /\ pc' = "construct"
       ELSE /\ pc' = "noargs"
            /\ UNCHANGED tag_name
    /\ UNCHANGED <<script, argv, device, plc, connOpen, calls, value, exc, tag_value,
                   stdout, stderr, exitStatus, runs, observed, findVars>>

\* else: print("Python Error: No tag name provided.", file=sys.stderr)
MainNoArgs ==
    /\ script = "ads" /\ pc = "noargs"
    /\ stderr' = Append(stderr, NoTagLine)
    /\ pc' = "exit"
    /\ UNCHANGED <<script, argv, device, tag_name, plc, connOpen, calls, value, exc,
                   tag_value, stdout, exitStatus, runs, observed, findVars>>

\* plc = pyads.Connection(PLC_AMS_NET_ID, PLC_PORT)
ConstructSkipOpen ==
    /\ script = "ads" /\ pc = "construct"
    /\ \/ /\ plc' = Connection(argv)
          /\ pc' = "read"
          /\ UNCHANGED exc
       \/ /\ Raise("ValueError", "except")
          /\ UNCHANGED plc
    /\ UNCHANGED <<script, argv, device, tag_name, connOpen, calls, value, tag_value,
                   stdout, stderr, exitStatus, runs, observed, findVars>>
Construct ==
    /\ script = "ads" /\ pc = "construct"
    /\ \/ /\ plc' = Connection(argv)
          /\ pc' = "open"
          /\ UNCHANGED exc
       \/ /\ Raise("ValueError", "except")
          /\ UNCHANGED plc
    /\ UNCHANGED <<script, argv, device, tag_name, connOpen, calls, value, tag_value,
                   stdout, stderr, exitStatus, runs, observed, findVars>>

\* plc.open()
Open ==
    /\ script = "ads" /\ pc = "open"
    /\ calls' = Append(calls, "open")
    /\ \/ /\ connOpen' = TRUE
          /\ pc' = "read"
          /\ UNCHANGED exc
       \/ /\ Raise("ConnectError", "except")
          /\ UNCHANGED connOpen
    /\ UNCHANGED <<script, argv, device, tag_name, plc, value, tag_value,
                   stdout, stderr, exitStatus, runs, observed, findVars>>

\* value = plc.read_by_name(tag_name, pyads.PLCTYPE_REAL)
ReadByName ==
    /\ script = "ads" /\ pc = "read"
    /\ calls' = Append(calls, "read_by_name")
    /\ \/ /\ tag_name \in Symbols
          /\ value' = Float(device)
          /\ pc' = "close"
          /\ UNCHANGED exc
       \/ /\ tag_name \notin Symbols
          /\ Raise("SymbolNotFound", "except")
          /\ UNCHANGED value
       \/ /\ \E e \in {"TimeoutError", "ProtocolError"} : Raise(e, "except")
          /\ UNCHANGED value
    /\ UNCHANGED <<script, argv, device, tag_name, plc, connOpen, tag_value,
                   stdout, stderr, exitStatus, runs, observed, findVars>>

\* plc.close(): when it raises, the connection may or may not have been released.
Close ==
    /\ script = "ads" /\ pc = "close"
    /\ calls' = Append(calls, "close")
    /\ \/ /\ connOpen' = FALSE
          /\ pc' = "return"
          /\ UNCHANGED exc
       \/ /\ Raise("IOError", "except")
          /\ connOpen' \in BOOLEAN
    /\ UNCHANGED <<script, argv, device, tag_name, plc, value, tag_value,
                   stdout, stderr, exitStatus, runs, observed, findVars>>

\* return value
Return ==
    /\ script = "ads" /\ pc = "return"
    /\ tag_value' = value
    /\ pc' = "check"
    /\ UNCHANGED <<script, argv, device, tag_name, plc, connOpen, calls, value, exc,
                   stdout, stderr, exitStatus, runs, observed, findVars>>

\* except Exception as e: print(f"Python Error: {e}", file=sys.stderr); return None
\* An exception the clause does not catch leaves read_plc_tag and ends the
\* process with a traceback.
Except ==
    /\ script = "ads" /\ pc = "except"
    /\ IF Catches(exc)
       THEN /\ stderr' = Append(stderr, ErrorLine(exc))
            /\ tag_value' = HandlerResult(value)
            /\ pc' = "check"
       ELSE /\ pc' = "escaped"
            /\ UNCHANGED <<stderr, tag_value>>
    /\ UNCHANGED <<script, argv, device, tag_name, plc, connOpen, calls, value, exc,
                   stdout, exitStatus, runs, observed, findVars>>

\* if tag_value is not None: print(tag_value)
MainPrint ==
    /\ script = "ads" /\ pc = "check"
    /\ IF IsNotNone(tag_value)
       THEN stdout' = Append(stdout, Str(tag_value))
       ELSE UNCHANGED stdout
    /\ pc' = "exit"
    /\ UNCHANGED <<script, argv, device, tag_name, plc, connOpen, calls, value, exc,
                   tag_value, stderr, exitStatus, runs, observed, findVars>>

\* The end of the script: nothing sets an exit status, so the process ends
\* with status 0 whatever happened.
ExitStatus(failed) == 0

\* What the calling process has seen of a read_plc_tag call: the failure the
\* library raised in it (NoExc when none) and the result it returned.
Observation == [kind |-> exc, result |-> tag_value, diag |-> stderr]

AdsExit ==
    /\ script = "ads" /\ pc = "exit"
    /\ exitStatus' = <<ExitStatus(stderr # <<>>)>>
    /\ observed' = IF tag_name # NoTag THEN observed \cup {Observation} ELSE observed
    /\ pc' = "done"
    /\ UNCHANGED <<script, argv, device, tag_name, plc, connOpen, calls, value, exc,
                   tag_value, stdout, stderr, runs, findVars>>

\* "This script is designed to be called from another process": the caller
\* starts the script again, as a new process with new arguments.
Restart ==
    /\ script = "ads" /\ pc = "done"
    /\ runs < MaxRuns
    /\ runs' = runs + 1
    /\ argv' \in SeqsUpTo(Words, MaxArgs)
    /\ pc' = "main"
    /\ tag_name' = NoTag
    /\ plc' = Unbound
    /\ connOpen' = FALSE
    /\ calls' = <<>>
    /\ value' = Unbound
    /\ exc' = NoExc
    /\ tag_value' = Unbound
    /\ stdout' = <<>>
    /\ stderr' = <<>>
    /\ exitStatus' = <<>>
    /\ UNCHANGED <<script, device, observed, findVars>>

----------------------------------------------------------------------------
(* find_net_id.py *)

Key == "PYADS_AMS_NET_ID"

Banner == <<"--- AmsAddr Object Attributes ---">>
Rule == <<"---------------------------">>

\* print(local_address.__dict__): the object's attribute dictionary.
DictLine(addr) == <<"{", addr.field, ":", addr.netid, "}">>

\* print(f"PYADS_AMS_NET_ID:{local_address.netid}")
NetIdLineNoKey(addr) == <<addr.netid>>
NetIdLine(addr) == <<Key, ":", addr.netid>>

\* print(f"Error getting local AMS Net ID: {e}")
FindErrorLine(e) == <<"Error getting local AMS Net ID", ":", " ", e>>

\* hasattr(local_address, 'netid')
HasNetid(addr) == addr.hasNetid

\* `'port' in locals() and port`
PortAlways(p) == TRUE
PortIsSet(p) == p.type = "int" /\ p.int # 0

\* The AmsAddr objects adsGetLocalAddressEx may return: the source does not
\* know which attribute holds the net id, nor whether `netid` exists.
AmsAddrs == {[type |-> "AmsAddr", field |-> f, netid |-> n, hasNetid |-> h] :
                f \in {"'_ams_addr'"}, n \in NetIds, h \in BOOLEAN}

\* port = pyads_ex.adsPortOpenEx()
PortOpen ==
    /\ script = "find" /\ pc = "main"
    /\ \/ /\ \E p \in Ports : port' = PyInt(p)
          /\ pc' = "getaddr"
          /\ UNCHANGED exc
       \/ /\ Raise("RuntimeError", "except")
          /\ UNCHANGED port
    /\ UNCHANGED <<script, argv, device, stdout, exitStatus, runs, adsVars,
                   local_address, closeCalls>>

\* local_address = pyads_ex.adsGetLocalAddressEx(port)
GetLocalAddress ==
    /\ script = "find" /\ pc = "getaddr"
    /\ \/ /\ local_address' \in AmsAddrs
          /\ pc' = "inspect"
          /\ UNCHANGED exc
       \/ /\ Raise("ADSError", "except")
          /\ UNCHANGED local_address
    /\ UNCHANGED <<script, argv, device, stdout, exitStatus, runs, adsVars,
                   port, closeCalls>>

\* The three prints that show the object's attributes; reading __dict__ for the
\* second one may raise.
Inspect ==
    /\ script = "find" /\ pc = "inspect"
    /\ \/ /\ stdout' = stdout \o <<Banner, DictLine(local_address), Rule>>
          /\ pc' = "netid"
          /\ UNCHANGED exc
       \/ /\ stdout' = Append(stdout, Banner)
          /\ Raise("AttributeError", "except")
    /\ UNCHANGED <<script, argv, device, exitStatus, runs, adsVars, findVars>>

\* if hasattr(local_address, 'netid'): print(f"PYADS_AMS_NET_ID:{...}")
PrintNetId ==
    /\ script = "find" /\ pc = "netid"
    /\ IF HasNetid(local_address)
       THEN stdout' = Append(stdout, NetIdLine(local_address))
       ELSE UNCHANGED stdout
    /\ pc' = "finally"
    /\ UNCHANGED <<script, argv, device, exc, exitStatus, runs, adsVars, findVars>>

\* except Exception as e: print(f"Error getting local AMS Net ID: {e}")
FindExcept ==
    /\ script = "find" /\ pc = "except"
    /\ stdout' = Append(stdout, FindErrorLine(exc))
    /\ pc' = "finally"
    /\ UNCHANGED <<script, argv, device, exc, exitStatus, runs, adsVars, findVars>>

\* finally: if 'port' in locals() and port: pyads_ex.adsPortCloseEx(port)
\* and the end of the script; adsPortCloseEx raising ends it with a traceback.
Finally ==
    /\ script = "find" /\ pc = "finally"
    /\ IF PortIsSet(port)
       THEN /\ closeCalls' = Append(closeCalls, port)
            /\ \/ exitStatus' = <<0>>
               \/ exitStatus' = <<1>>
       ELSE /\ exitStatus' = <<0>>
            /\ UNCHANGED closeCalls
    /\ pc' = "done"
    /\ UNCHANGED <<script, argv, device, stdout, exc, runs, adsVars, port,
                   local_address>>

----------------------------------------------------------------------------
(* The system *)

Init ==
    /\ script \in {"ads", "find"}
    /\ pc = "main"
    /\ argv \in (IF script = "ads" THEN SeqsUpTo(Words, MaxArgs) ELSE {<<>>})
    /\ device \in (IF script = "ads" THEN Reals ELSE {0})
    /\ tag_name = NoTag
    /\ plc = Unbound
    /\ connOpen = FALSE
    /\ calls = <<>>
    /\ value = Unbound
    /\ exc = NoExc
    /\ tag_value = Unbound
    /\ stdout = <<>>
    /\ stderr = <<>>
    /\ exitStatus = <<>>
    /\ runs = 1
    /\ observed = {}
    /\ port = Unbound
    /\ local_address = Unbound
    /\ closeCalls = <<>>

Next ==
    \/ MainCheckArgs
    \/ MainNoArgs
    \/ Construct
    \/ Open
    \/ ReadByName
    \/ Close
    \/ Return
    \/ Except
    \/ MainPrint
    \/ AdsExit
    \/ Restart
    \/ PortOpen
    \/ GetLocalAddress
    \/ Inspect
    \/ PrintNetId
    \/ FindExcept
    \/ Finally

Spec == Init /\ [][Next]_vars

----------------------------------------------------------------------------
(* Vocabulary of the properties *)

AdsDone == script = "ads" /\ pc = "done"
FindDone == script = "find" /\ pc = "done"

\* read_plc_tag has returned to its caller.
Returned == script = "ads" /\ pc \in {"check", "exit", "done"} /\ tag_name # NoTag

OpenSucceeded == calls # <<>> /\ exc # "ConnectError"
CloseCalled == \E i \in DOMAIN calls : calls[i] = "close"

IsPrefix(s, t) == Len(s) <= Len(t) /\ \A i \in DOMAIN s : s[i] = t[i]

\* The number a reader of a printed float parses back.
ParseFloat(line) == (IF line.neg THEN -1 ELSE 1) * (line.int * 10 + line.frac)

\* line.split(':') on a line of tokens.
RECURSIVE SplitOn(_, _)
SplitOn(line, sep) ==
    IF line = <<>> THEN << <<>> >>
    ELSE LET rest == SplitOn(Tail(line), sep)
         IN  IF Head(line) = sep
             THEN << <<>> >> \o rest
             ELSE << <<Head(line)>> \o Head(rest) >> \o Tail(rest)

\* The lines of standard output from which a split on ':' yields the key and
\* the given net id.
NetIdLinesFor(netid) ==
    {i \in DOMAIN stdout : SplitOn(stdout[i], ":") = << <<Key>>, <<netid>> >>}

KeyLines == {i \in DOMAIN stdout : Head(stdout[i]) = Key}

----------------------------------------------------------------------------
(* Properties *)

\* C1: once plc.open() has succeeded, plc.close() has been called by the time
\* read_plc_tag returns, on every exit path.
C1_ClosedOnEveryExit ==
    (Returned /\ OpenSucceeded) => CloseCalled

\* C2: a run of the read-tag script exits with status zero exactly when it
\* printed a value; every failed run exits non-zero.
C2_FailureExitsNonZero ==
    AdsDone => (exitStatus = <<0>> <=> (stdout # <<>> /\ stderr = <<>>))

\* C3: a run that fails at any stage writes exactly one diagnostic to standard
\* error and nothing to standard output; without a tag argument no connection
\* is constructed and no call is issued.
C3_FailureDiagnostic ==
    script = "ads" =>
        /\ exc # NoExc => stdout = <<>> /\ Len(stderr) <= 1
        /\ Len(argv) = 0 => plc = Unbound /\ calls = <<>> /\ stdout = <<>>
        /\ (pc = "done" /\ exc # NoExc) => stderr = <<ErrorLine(exc)>>
        /\ (pc = "done" /\ Len(argv) = 0) => stderr = <<NoTagLine>>

C3_Witness ==
    /\ AdsDone /\ exc = "IOError" /\ value.type = "float"
    /\ stderr = <<ErrorLine("IOError")>> /\ stdout = <<>>

\* C4: a run in which open, read_by_name and close all succeed writes exactly
\* one line to standard output, the value read_by_name returned, and nothing
\* to standard error.
C4_SuccessPrintsValue ==
    (AdsDone /\ Len(argv) > 0 /\ exc = NoExc) =>
        /\ value = Float(device)
        /\ Len(stdout) = 1
        /\ DOMAIN stdout[1] = {"neg", "int", "frac"}
        /\ ParseFloat(stdout[1]) = value.real
        /\ stderr = <<>>

C4_Witness ==
    /\ AdsDone /\ exc = NoExc /\ value = Float(0)
    /\ Len(stdout) = 1 /\ ParseFloat(stdout[1]) = 0

\* C5: read_plc_tag returns a number only when construction, open,
\* read_by_name and close all succeeded in that call, and then the number
\* read_by_name returned; when any stage failed it returns None.
C5_NoFallbackValue ==
    Returned =>
        /\ tag_value.type \in {"float", "NoneType"}
        /\ tag_value.type = "float" =>
              /\ exc = NoExc
              /\ plc # Unbound
              /\ calls = <<"open", "read_by_name", "close">>
              /\ tag_value = Float(device)
        /\ exc # NoExc => tag_value = None

C5_Witness ==
    /\ Returned /\ exc = "IOError" /\ value = Float(235) /\ tag_value = None

C7_CallOrder ==
    /\ [](script = "ads" => IsPrefix(calls, <<"open", "read_by_name", "close">>))
    /\ [][(script = "ads" /\ Len(calls') = Len(calls) + 1) =>
            /\ calls'[Len(calls')] = "read_by_name" => connOpen
            /\ calls'[Len(calls')] = "open" => ~connOpen]_vars

C7_Witness ==
    script = "ads" /\ calls = <<"open", "read_by_name", "close">> /\ ~connOpen

C9_NetIdLinePrinted ==
    (FindDone /\ local_address # Unbound) =>
        NetIdLinesFor(local_address.netid) # {}

\* C9 (amended): when the query succeeded, the attribute dump printed without
\* raising and the address object has a netid attribute, the script prints
\* exactly one line starting with the key, its last line, which splits on ':'
\* into the key and the net id; otherwise it prints no line with the key.
C9_NetIdLineWhenAttribute ==
    FindDone =>
        IF exc = NoExc /\ local_address # Unbound /\ local_address.hasNetid
        THEN /\ NetIdLinesFor(local_address.netid) = {Len(stdout)}
             /\ KeyLines = {Len(stdout)}
        ELSE KeyLines = {}

C9_Witness ==
    /\ FindDone /\ local_address # Unbound /\ local_address.netid = OtherNetId
    /\ NetIdLinesFor(OtherNetId) = {4}

\* C10: when adsPortOpenEx returned a port, adsPortCloseEx is called on that
\* port exactly once before the script ends, whether or not the query and the
\* printing raised; when adsPortOpenEx raised it is never called.
C10_PortClosedOnce ==
    script = "find" =>
        /\ Len(closeCalls) <= 1
        /\ (pc = "done" /\ port # Unbound) => closeCalls = <<port>>
        /\ port = Unbound => closeCalls = <<>>

C10_Witness ==
    /\ FindDone /\ exc = "AttributeError" /\ port = PyInt(32769)
    /\ closeCalls = <<port>>

====
